---- MODULE Spec2Model ----
(***************************************************************************)
(* WiFi provisioning state machine of the heating controller firmware:     *)
(* credential store, reset detector, client-mode connector, access-point   *)
(* configurator and the orchestrator ensure_wifi.                          *)
(*                                                                         *)
(* Text is a sequence of character codes (48 = "0", 72 = "H", ...), so     *)
(* that URL decoding and JSON encoding are computed, not assumed.          *)
(* Time is in milliseconds as read by utime.ticks_ms; utime.sleep(d)       *)
(* advances it by d.                                                       *)
(***************************************************************************)
EXTENDS Integers, Sequences, FiniteSets, TLC

(* ---- wifi_config.py ---- *)
MAX_RETRIES == 3
CONNECT_TIMEOUT_SEC == 15
RESET_HOLD_SEC == 3

(* polling intervals of the two timed loops *)
ResetPollMs == 100
ConnectPollMs == 500

(* cap on the growth of retry_count in the model *)
MaxCount == 5

(* Python None, distinct from every text *)
None == << -1 >>

(* ---- character helpers ---- *)
IsHex(c) == (c \in 48..57) \/ (c \in 65..70) \/ (c \in 97..102)

HexVal(c) ==
    IF c \in 48..57 THEN c - 48
    ELSE IF c \in 65..70 THEN c - 55
    ELSE c - 87

(* int(two characters, 16): the value, or -1 for ValueError.  Surrounding  *)
(* blanks are stripped by int(), so a blank next to one digit parses.      *)
Int16(a, b) ==
    IF IsHex(a) /\ IsHex(b) THEN 16 * HexVal(a) + HexVal(b)
    ELSE IF a = 32 /\ IsHex(b) THEN HexVal(b)
    ELSE IF IsHex(a) /\ b = 32 THEN HexVal(a)
    ELSE -1

HexDigit(n) == IF n < 10 THEN 48 + n ELSE 87 + n

(* ---- wifi_ap.py: _url_decode ---- *)
PlusToSpace(s) == [i \in 1..Len(s) |-> IF s[i] = 43 THEN 32 ELSE s[i]]

RECURSIVE DecodeFrom(_, _)
DecodeFrom(s, i) ==
    IF i > Len(s) THEN << >>
    ELSE IF s[i] = 37 /\ i + 2 <= Len(s) /\ Int16(s[i + 1], s[i + 2]) >= 0
         THEN << Int16(s[i + 1], s[i + 2]) >> \o DecodeFrom(s, i + 3)
         ELSE << s[i] >> \o DecodeFrom(s, i + 1)

_url_decode_m(s) == IF s = << >> THEN s ELSE DecodeFrom(s, 1)
_url_decode(s) == IF s = << >> THEN s ELSE DecodeFrom(PlusToSpace(s), 1)

(* ---- json.dump / json.load of a string member ---- *)
JsonEscapeChar(c) ==
    IF c = 34 THEN << 92, 34 >>
    ELSE IF c = 92 THEN << 92, 92 >>
    ELSE IF c = 10 THEN << 92, 110 >>
    ELSE IF c = 13 THEN << 92, 114 >>
    ELSE IF c = 9 THEN << 92, 116 >>
    ELSE IF c < 32 THEN << 92, 117, 48, 48, HexDigit(c \div 16), HexDigit(c % 16) >>
    ELSE << c >>

RECURSIVE JsonEscape(_)
JsonEscape(s) ==
    IF s = << >> THEN << >> ELSE JsonEscapeChar(Head(s)) \o JsonEscape(Tail(s))

JsonDumpStr(s) == << 34 >> \o JsonEscape(s) \o << 34 >>

(* the character a one-letter escape stands for *)
JsonShort(c) ==
    IF c = 110 THEN 10
    ELSE IF c = 114 THEN 13
    ELSE IF c = 116 THEN 9
    ELSE IF c = 98 THEN 8
    ELSE IF c = 102 THEN 12
    ELSE c

RECURSIVE JsonUnescape(_, _)
JsonUnescape(t, i) ==
    IF i > Len(t) THEN << >>
    ELSE IF t[i] = 92 /\ i + 1 <= Len(t)
         THEN IF t[i + 1] = 117 /\ i + 5 <= Len(t)
              THEN << 4096 * HexVal(t[i + 2]) + 256 * HexVal(t[i + 3])
                        + 16 * HexVal(t[i + 4]) + HexVal(t[i + 5]) >>
                   \o JsonUnescape(t, i + 6)
              ELSE << JsonShort(t[i + 1]) >> \o JsonUnescape(t, i + 2)
         ELSE << t[i] >> \o JsonUnescape(t, i + 1)

JsonLoadStr(t) == JsonUnescape(SubSeq(t, 2, Len(t) - 1), 1)

(* ---- credential file states ---- *)
Absent == [kind |-> "absent"]
Garbage == [kind |-> "garbage"]
JsonFile(ssid, password) ==
    [kind |-> "json", ssid |-> JsonDumpStr(ssid), password |-> JsonDumpStr(password)]
(* states only something else than this firmware can leave behind: a file  *)
(* open() cannot read, valid JSON that is not an object (a list, a number, *)
(* a string, null), and an object without the "ssid" member                *)
Unreadable == [kind |-> "unreadable"]
NonObject == [kind |-> "nonobject"]
NoSsid(password) == [kind |-> "nossid", password |-> JsonDumpStr(password)]

(* ---- wifi_credentials.py ---- *)
get_credentials_m(f) ==
    IF f.kind = "json" /\ JsonLoadStr(f.ssid) # << >>
    THEN << JsonLoadStr(f.ssid), << >> >>
    ELSE << None, None >>
(* get_credentials catches OSError (open), ValueError (json.load) and       *)
(* KeyError.  json.load of valid JSON that is not an object returns a list, *)
(* a number, a string or None, and data.get then raises AttributeError,     *)
(* which no except clause names: the call raises to its caller.             *)
AttributeError == << << -2 >>, << -2 >> >>

get_credentials(f) ==
    IF f.kind = "nonobject" THEN AttributeError
    ELSE IF f.kind = "json" /\ JsonLoadStr(f.ssid) # << >>
    THEN << JsonLoadStr(f.ssid), JsonLoadStr(f.password) >>
    ELSE << None, None >>

(* has_credentials: an exception of get_credentials passes through it *)
has_credentials(f) == get_credentials(f)[1] # None

(* save_credentials: open(..., "w") truncates, json.dump writes.  The      *)
(* outcome is "ok", "open_fail" (OSError before truncation) or             *)
(* "write_fail" (OSError after truncation, the file is left cut short);    *)
(* "cut" is a restart or power loss between the truncation and the end of  *)
(* the write, which leaves the file cut short as well.                     *)
SaveOutcomes == {"ok", "open_fail", "write_fail"}
save_credentials_m(f, ssid, password, outcome) ==
    IF outcome = "ok"
    THEN IF f.kind = "absent" THEN JsonFile(ssid, password) ELSE Garbage
    ELSE IF outcome = "open_fail" THEN f
    ELSE Garbage
save_credentials(f, ssid, password, outcome) ==
    IF outcome = "ok" THEN JsonFile(ssid, password)
    ELSE IF outcome = "open_fail" THEN f
    ELSE Garbage

(* delete_credentials: os.remove raises OSError when there is no file; the *)
(* except clause of delete_credentials swallows OSError.                   *)
os_remove(f) == IF f.kind = "absent" THEN "OSError" ELSE "ok"

DeleteCatches_m(e) == FALSE
DeleteCatches(e) == e = "OSError"

delete_raises(f) == os_remove(f) # "ok" /\ ~DeleteCatches(os_remove(f))

delete_credentials_m(f) == f
delete_credentials(f) == IF os_remove(f) = "ok" THEN Absent ELSE f


(* ---- wifi_dns.py ---- *)
(* "192.168.4.1" *)
AP_IP == << 49, 57, 50, 46, 49, 54, 56, 46, 52, 46, 49 >>

(* ip_addr.split("."): the parts of s from position i on, cur being the    *)
(* part read so far                                                        *)
RECURSIVE SplitDot(_, _, _)
SplitDot(s, i, cur) ==
    IF i > Len(s) THEN << cur >>
    ELSE IF s[i] = 46 THEN << cur >> \o SplitDot(s, i + 1, << >>)
    ELSE SplitDot(s, i + 1, Append(cur, s[i]))

(* int() of a run of decimal digits *)
RECURSIVE DecInt(_)
DecInt(t) ==
    IF t = << >> THEN 0 ELSE 10 * DecInt(SubSeq(t, 1, Len(t) - 1)) + (t[Len(t)] - 48)

(* bytes(map(int, ip_addr.split("."))) *)
IpToBytes(ip_addr) ==
    LET parts == SplitDot(ip_addr, 1, << >>) IN
    [i \in 1..Len(parts) |-> DecInt(parts[i])]

create_response_m(data, ip_addr) ==
    IF Len(data) < 12 THEN << >>
    ELSE << 0, 0 >> \o << 129, 128, 0, 1, 0, 1, 0, 0, 0, 0 >>
         \o SubSeq(data, 13, Len(data))
         \o << 192, 12, 0, 1, 0, 1, 0, 0, 0, 60, 0, 4 >> \o IpToBytes(ip_addr)
create_response(data, ip_addr) ==
    IF Len(data) < 12 THEN << >>
    ELSE SubSeq(data, 1, 2) \o << 129, 128, 0, 1, 0, 1, 0, 0, 0, 0 >>
         \o SubSeq(data, 13, Len(data))
         \o << 192, 12, 0, 1, 0, 1, 0, 0, 0, 60, 0, 4 >> \o IpToBytes(ip_addr)

(* ---- inputs of the access point ---- *)
DnsHeader == << 7, 9, 1, 0, 0, 1, 0, 0, 0, 0, 0, 0 >>
DnsQueries ==
    { SubSeq(DnsHeader, 1, 11),
      DnsHeader \o << 1, 72, 0, 0, 1, 0, 1 >> }

Part(k, v) == [k |-> k, v |-> v, eq |-> TRUE]
Bare(k) == [k |-> k, v |-> << >>, eq |-> FALSE]
Req(path, query) == [kind |-> "req", path |-> path, query |-> query]
NoRequest == [kind |-> "none"]

Requests ==
    LET RawSsids == { << 72 >>, << 72, 43 >>, << 37, 50, 50 >> }
        RawPasswords == { << 112 >>, << 37, 53, 67 >> }
        SaveRequests ==
            { Req("/save", << Part("ssid", s), Part("password", p) >>) :
                  s \in RawSsids, p \in RawPasswords }
        OtherRequests ==
            { [kind |-> "accept_fail"], [kind |-> "nodata"], [kind |-> "short"],
              Req("/", << >>), Req("/index.html", << >>), Req("/other", << >>),
              Req("/save", << >>),
              Req("/save", << Part("password", << 112 >>) >>),
              Req("/save", << Part("ssid", << >>), Part("password", << 112 >>) >>),
              Req("/save", << Part("xssid", << 72 >>) >>),
              Req("/save", << Bare("ssid") >>),
              Req("/save", << Part("ssid", << 72 >>), Part("ssid", << >>) >>) }
    IN  SaveRequests \cup OtherRequests

(* "ssid" in query: a substring test on the raw query text; among the      *)
(* requests above the word occurs only inside these keys.                  *)
SsidInQuery_m(query) == \E i \in 1..Len(query) : query[i].k = "ssid" /\ query[i].eq
SsidInQuery(query) == \E i \in 1..Len(query) : query[i].k \in {"ssid", "xssid"}

(* _parse_query followed by params.get(key, ""): the last "key=value"      *)
(* part wins, parts without "=" are skipped.                               *)
RECURSIVE ParamGet(_, _, _)
ParamGet(query, key, i) ==
    IF i = 0 THEN << >>
    ELSE IF query[i].eq /\ query[i].k = key THEN query[i].v
    ELSE ParamGet(query, key, i - 1)

_parse_query(query, key) == ParamGet(query, key, Len(query))

InitFiles == { Absent, Garbage, JsonFile(<< 72 >>, << 112 >>) }

VARIABLES
    pc,           \* position of the firmware in ensure_wifi
    file,         \* content of CREDENTIAL_FILE
    btn,          \* level of the reset line (0 = pressed)
    elapsed,      \* ticks_diff(ticks_ms(), start) of the running timed loop
    attempt,      \* loop variable of try_connect_sta_with_retries
    caller,       \* who called connect_sta: "retries" or "ap"
    conn,         \* << ssid, password >> of the running connect_sta, else None
    led,          \* status LED level
    ap_active,    \* AP interface activated by start_ap
    dns_open,     \* dns_sock is open
    http_open,    \* http_sock is open
    retry_count,  \* run_ap_config_loop local
    resp,         \* page chosen for the last accepted connection
    sent,         \* the page was sent without a socket error
    dnsReply,     \* datagram sent for the last DNS query, None if none
    results,      \* history: results of connect_sta in this run of the retry loop
    ret,          \* history: return value of try_connect_sta_with_retries
    vres,         \* history: outcome of the validation connect of the last /save
    fails,        \* history: failures in a row since retry_count was 0
    clean,        \* history: only failures since retry_count was 0
    sub,          \* history: raw << ssid, password >> of the /save being validated
    savedPair,    \* history: pair whose validated save caused the last restart
    sta_active,   \* client radio activated by wlan.active(True)
    requests,     \* wlan.connect calls issued by the running connect_sta
    heldSince,    \* history: the line was active all the time elapsed measures
    fired,        \* history: the last restart was the reset action
    op,           \* last operation applied by the function specifications
    input,        \* its arguments
    out,          \* its result
    raised,       \* it raised to its caller
    dnsQuery,     \* history: the last datagram received on dns_sock, else None
    req,          \* history: the request accepted in the last pass, else NoRequest
    ntp,          \* history: outcome of ntptime.settime()
    RELAY_PIN,    \* level of the relay output of main.py (0 = ON, active low)
    last_processed_sys_cmd,        \* global of main.py
    last_processed_manual_update,  \* global of main.py
    last_periodic_check,           \* global of main.py, a ticks_ms() value
    now,          \* milliseconds since the device started
    command,      \* the node "command" of the cloud store
    pending,      \* history: the app raised a manual update not served yet
    iter,         \* history: what the last pass of the polling loop did
                  \* (seq tells a pass from the one before)
    wifi_config   \* content of WIFI_CONFIG_FILE of main.py

vars == << pc, file, btn, elapsed, attempt, caller, conn, led, ap_active,
           dns_open, http_open, retry_count, resp, sent, dnsReply,
           results, ret, vres, fails, clean, sub, savedPair,
           sta_active, requests, heldSince, fired, op, input, out, raised,
           dnsQuery, req, ntp, RELAY_PIN, last_processed_sys_cmd,
           last_processed_manual_update, last_periodic_check, now, command,
           pending, iter, wifi_config >>

apVars == << ap_active, dns_open, http_open, retry_count, resp, sent,
             dnsReply, vres, fails, clean, sub, dnsQuery, req >>
staVars == << attempt, results, ret >>
radioVars == << sta_active, requests, heldSince >>
pureVars == << op, input, out, raised >>
loopVars == << RELAY_PIN, last_processed_sys_cmd, last_processed_manual_update,
              last_periodic_check, now, command, pending, iter, wifi_config >>

(* no pass of the polling loop of main.py has run: the relay is OFF (high)  *)
(* as the pin is created, the globals hold their module-level values        *)
NoPass == [poll |-> "none"]
LoopFresh ==
    /\ RELAY_PIN = 1
    /\ last_processed_sys_cmd = None
    /\ last_processed_manual_update = None
    /\ last_periodic_check = 0
    /\ now = 0
    /\ command = [system_cmd |-> None, manual_update |-> None]
    /\ pending = FALSE
    /\ iter = NoPass
    /\ wifi_config = Absent

Init ==
    /\ pc = "boot"
    /\ file \in InitFiles
    /\ btn \in {0, 1}
    /\ elapsed = 0
    /\ attempt = 0
    /\ caller = "none"
    /\ conn = None
    /\ led = 0
    /\ ap_active = FALSE
    /\ dns_open = FALSE
    /\ http_open = FALSE
    /\ retry_count = 0
    /\ resp = "none"
    /\ sent = FALSE
    /\ dnsReply = None
    /\ results = << >>
    /\ ret = "none"
    /\ vres = "none"
    /\ fails = 0
    /\ clean = TRUE
    /\ sub = None
    /\ savedPair = None
    /\ sta_active = FALSE
    /\ requests = 0
    /\ heldSince = FALSE
    /\ fired = FALSE
    /\ op = "none"
    /\ input = None
    /\ out = None
    /\ raised = FALSE
    /\ dnsQuery = None
    /\ req = NoRequest
    /\ ntp = "none"
    /\ LoopFresh

(* machine.reset(): everything but the file and the line level is lost *)
Restart ==
    /\ pc' = "boot"
    /\ elapsed' = 0
    /\ attempt' = 0
    /\ caller' = "none"
    /\ conn' = None
    /\ led' = 0
    /\ ap_active' = FALSE
    /\ dns_open' = FALSE
    /\ http_open' = FALSE
    /\ retry_count' = 0
    /\ resp' = "none"
    /\ sent' = FALSE
    /\ dnsReply' = None
    /\ results' = << >>
    /\ ret' = "none"
    /\ vres' = "none"
    /\ fails' = 0
    /\ clean' = TRUE
    /\ sub' = None
    /\ sta_active' = FALSE
    /\ requests' = 0
    /\ heldSince' = FALSE
    /\ dnsQuery' = None
    /\ req' = NoRequest
    /\ ntp' = "none"
    /\ UNCHANGED btn
    /\ UNCHANGED pureVars
    /\ UNCHANGED loopVars

(* ---- wifi_reset.py: check_reset_button ---- *)
ResetFires_m(e) == e > RESET_HOLD_SEC * 1000
ResetFires(e) == e >= RESET_HOLD_SEC * 1000

CheckResetButton_m ==
    /\ pc = "boot"
    /\ IF btn = 0
       THEN pc' = "has_creds"
       ELSE pc' = "reset_loop"
    /\ elapsed' = 0
    /\ heldSince' = (btn = 0)
    /\ UNCHANGED << file, btn, attempt, caller, conn, led, savedPair,
                    sta_active, requests, fired >>
    /\ UNCHANGED apVars
    /\ UNCHANGED staVars
    /\ UNCHANGED pureVars
    /\ UNCHANGED loopVars
    /\ UNCHANGED ntp

CheckResetButton ==
    /\ pc = "boot"
    /\ IF btn = 1
       THEN pc' = "has_creds"
       ELSE pc' = "reset_loop"
    /\ elapsed' = 0
    /\ heldSince' = (btn = 0)
    /\ UNCHANGED << file, btn, attempt, caller, conn, led, savedPair,
                    sta_active, requests, fired >>
    /\ UNCHANGED apVars
    /\ UNCHANGED staVars
    /\ UNCHANGED pureVars
    /\ UNCHANGED loopVars
    /\ UNCHANGED ntp

(* delete_credentials() and then machine.reset(), which does not return *)
EraseAndReset_m ==
    /\ savedPair' = None
    /\ fired' = TRUE
    /\ Restart
    /\ UNCHANGED file

EraseAndReset ==
    /\ file' = delete_credentials(file)
    /\ savedPair' = None
    /\ fired' = TRUE
    /\ Restart

ResetPoll ==
    /\ pc = "reset_loop"
    /\ IF btn = 0
       THEN IF ResetFires(elapsed)
            THEN EraseAndReset
            ELSE /\ elapsed' = elapsed + ResetPollMs
                 /\ UNCHANGED << pc, file, btn, attempt, caller, conn, led,
                                 savedPair, fired >>
                 /\ UNCHANGED apVars
                 /\ UNCHANGED staVars
                 /\ UNCHANGED radioVars
                 /\ UNCHANGED pureVars
                 /\ UNCHANGED loopVars
                 /\ UNCHANGED ntp
       ELSE /\ pc' = "has_creds"
            /\ heldSince' = FALSE
            /\ UNCHANGED << file, btn, elapsed, attempt, caller, conn, led,
                            savedPair, sta_active, requests, fired >>
            /\ UNCHANGED apVars
            /\ UNCHANGED staVars
            /\ UNCHANGED pureVars
            /\ UNCHANGED loopVars
            /\ UNCHANGED ntp


(* ---- wifi_manager.py: ensure_wifi, step 2 ---- *)
(* _led_on(): led.value(1) *)
_led_on(l) == 1

(* _led_off(): led.value(0) *)
_led_off_m(l) == 1
_led_off(l) == 0

HasCredentials ==
    /\ pc = "has_creds"
    /\ IF has_credentials(file)
       THEN /\ pc' = "retries"
            /\ attempt' = 1
            /\ led' = led
       ELSE /\ pc' = "ap_start"
            /\ attempt' = attempt
            /\ led' = _led_off(led)
    /\ UNCHANGED << file, btn, elapsed, caller, conn, results, ret, savedPair,
                    fired >>
    /\ UNCHANGED apVars
    /\ UNCHANGED radioVars
    /\ UNCHANGED pureVars
    /\ UNCHANGED loopVars
    /\ UNCHANGED ntp

(* ---- wifi_sta.py ---- *)
ConnectTimedOut_m(e) == e > CONNECT_TIMEOUT_SEC * 1000
ConnectTimedOut(e) == e >= CONNECT_TIMEOUT_SEC * 1000

(* "if not ssid": None or the empty string *)
NotSsid_m(ssid) == FALSE
NotSsid(ssid) == ssid = None \/ ssid = << >>

LastAttempt_m(a) == a > MAX_RETRIES
LastAttempt(a) == a >= MAX_RETRIES

(* connect_sta returns: its locals die *)
ConnectReturns ==
    /\ conn' = None
    /\ caller' = "none"
    /\ elapsed' = 0
    /\ requests' = 0
    /\ heldSince' = FALSE
    /\ UNCHANGED sta_active

RetriesResult_m(r) ==
    /\ results' = Append(results, r)
    /\ IF r \/ LastAttempt(attempt)
       THEN /\ ret' = IF r THEN "true" ELSE "false"
            /\ pc' = "ap_start"
            /\ led' = 0
            /\ attempt' = attempt
       ELSE /\ ret' = ret
            /\ pc' = "retries"
            /\ led' = led
            /\ attempt' = attempt + 1

(* try_connect_sta_with_retries receives the result r of connect_sta() *)
RetriesResult(r) ==
    /\ results' = Append(results, r)
    /\ IF r
       THEN /\ ret' = "true"
            /\ pc' = "connected"
            /\ led' = _led_on(led)
            /\ attempt' = attempt
       ELSE IF LastAttempt(attempt)
            THEN /\ ret' = "false"
                 /\ pc' = "ap_start"
                 /\ led' = _led_off(led)
                 /\ attempt' = attempt
            ELSE /\ ret' = ret
                 /\ pc' = "retries"
                 /\ led' = led
                 /\ attempt' = attempt + 1

(* one pass of the for loop: connect_sta() with the stored pair; wlan.active *)
(* or wlan.connect may raise, which ends ensure_wifi with the exception     *)
TryConnect ==
    /\ pc = "retries"
    /\ LET creds == get_credentials(file) IN
       IF NotSsid(creds[1])
       THEN /\ RetriesResult(FALSE)
            /\ UNCHANGED << elapsed, caller, conn >>
            /\ UNCHANGED radioVars
       ELSE \E raises \in BOOLEAN :
               IF raises
               THEN /\ pc' = "raised"
                    /\ sta_active' = TRUE
                    /\ UNCHANGED << attempt, results, ret, led, elapsed,
                                    caller, conn, requests, heldSince >>
               ELSE /\ pc' = "sta_poll"
                    /\ conn' = creds
                    /\ caller' = "retries"
                    /\ elapsed' = 0
                    /\ sta_active' = TRUE
                    /\ requests' = 1
                    /\ heldSince' = (btn = 0)
                    /\ UNCHANGED << attempt, results, ret, led >>
    /\ UNCHANGED << file, btn, savedPair, fired >>
    /\ UNCHANGED apVars
    /\ UNCHANGED pureVars
    /\ UNCHANGED loopVars
    /\ UNCHANGED ntp

(* run_ap_config_loop receives the result r of connect_sta(user_ssid,      *)
(* user_pass); conn holds user_ssid and user_pass                          *)
Exhausted_m(n) == n > MAX_RETRIES
Exhausted(n) == n >= MAX_RETRIES

ApResult(r) ==
    IF r
    THEN \E o \in SaveOutcomes, sendOk \in BOOLEAN :
            /\ o # "ok" => sendOk
            /\ file' = save_credentials(file, conn[1], conn[2], o)
            /\ vres' = "true"
            /\ resp' = IF o = "ok" THEN "success" ELSE "none"
            /\ sent' = (o = "ok" /\ sendOk)
            /\ IF o = "ok" /\ sendOk
               THEN /\ pc' = "ap_returned"
                    /\ dns_open' = FALSE
                    /\ http_open' = FALSE
                    /\ savedPair' = conn
               ELSE /\ pc' = "ap_loop"
                    /\ savedPair' = IF o = "open_fail" THEN savedPair ELSE None
                    /\ UNCHANGED << dns_open, http_open >>
            /\ clean' = FALSE
            /\ fails' = 0
            /\ UNCHANGED retry_count
    ELSE /\ vres' = "false"
         /\ IF Exhausted(retry_count)
            THEN /\ retry_count' = 0
                 /\ resp' = "exhausted"
            ELSE /\ retry_count' = retry_count
                 /\ resp' = "retrying"
         /\ clean' = clean
         /\ fails' = IF clean THEN fails + 1 ELSE 0
         /\ sent' \in BOOLEAN
         /\ pc' = "ap_loop"
         /\ UNCHANGED << file, dns_open, http_open, savedPair >>

(* one pass of the status polling loop of connect_sta *)
ConnectPoll ==
    /\ pc = "sta_poll"
    /\ \E isconnected \in BOOLEAN :
          IF isconnected \/ ConnectTimedOut(elapsed)
          THEN /\ IF caller = "retries"
                  THEN /\ RetriesResult(isconnected)
                       /\ UNCHANGED << file, savedPair >>
                       /\ UNCHANGED apVars
                  ELSE /\ ApResult(isconnected)
                       /\ sub' = None
                       /\ req' = NoRequest
                       /\ UNCHANGED << led, ap_active, dnsReply, dnsQuery >>
                       /\ UNCHANGED staVars
               /\ ConnectReturns
          ELSE /\ elapsed' = elapsed + ConnectPollMs
               /\ UNCHANGED << pc, file, led, caller, conn, savedPair >>
               /\ UNCHANGED apVars
               /\ UNCHANGED staVars
               /\ UNCHANGED radioVars
    /\ UNCHANGED << btn, fired >>
    /\ UNCHANGED pureVars
    /\ UNCHANGED loopVars
    /\ UNCHANGED ntp

(* ---- wifi_manager.py: ensure_wifi, step 3 and the AP branch ---- *)
(* ntptime.settime() raises when the server cannot be reached; _sync_time   *)
(* catches Exception                                                       *)
SyncCatches_m(e) == FALSE
SyncCatches(e) == e = "Exception"

SyncTime ==
    /\ pc = "connected"
    /\ \E settime \in {"ok", "Exception"} :
          /\ ntp' = IF settime = "ok" THEN "ok" ELSE "failed"
          /\ pc' = IF settime = "ok" \/ SyncCatches(settime)
                   THEN "returned" ELSE "raised"
    /\ UNCHANGED << file, btn, elapsed, attempt, caller, conn, led, results,
                    ret, savedPair, fired >>
    /\ UNCHANGED apVars
    /\ UNCHANGED radioVars
    /\ UNCHANGED pureVars
    /\ UNCHANGED loopVars

RestartAfterSave_m ==
    /\ pc = "ap_returned"
    /\ pc' = "returned"
    /\ UNCHANGED << file, btn, elapsed, attempt, caller, conn, led, results,
                    ret, savedPair, fired >>
    /\ UNCHANGED apVars
    /\ UNCHANGED radioVars
    /\ UNCHANGED pureVars
    /\ UNCHANGED loopVars
    /\ UNCHANGED ntp

RestartAfterSave ==
    /\ pc = "ap_returned"
    /\ Restart
    /\ fired' = FALSE
    /\ UNCHANGED << file, savedPair >>

(* ---- wifi_ap.py: run_ap_config_loop ---- *)
(* start_ap() and the set-up of the two sockets, all before the try block: *)
(* an OSError from ap.config or ap.ifconfig, from socket() or from bind     *)
(* leaves run_ap_config_loop with what was set up so far still in place.    *)
StartAP ==
    /\ pc = "ap_start"
    /\ \E o \in {"ok", "ap_fail", "dns_fail", "http_fail"}, created \in BOOLEAN :
          /\ pc' = IF o = "ok" THEN "ap_loop" ELSE "ap_raised"
          /\ o = "ok" => created
          /\ ap_active' = (o # "ap_fail" \/ created)
          /\ dns_open' = (o \in {"ok", "http_fail"} \/ (o = "dns_fail" /\ created))
          /\ http_open' = (o = "ok" \/ (o = "http_fail" /\ created))
    /\ retry_count' = 0
    /\ clean' = TRUE
    /\ fails' = 0
    /\ UNCHANGED << file, btn, elapsed, attempt, caller, conn, led, resp, sent,
                    dnsReply, results, ret, vres, sub, savedPair, fired,
                    dnsQuery, req >>
    /\ UNCHANGED radioVars
    /\ UNCHANGED pureVars
    /\ UNCHANGED loopVars
    /\ UNCHANGED ntp

(* the loop is abandoned: select raises, or KeyboardInterrupt stops the     *)
(* firmware; the finally clause closes both sockets, nothing else is undone *)
(* and the exception leaves run_ap_config_loop and ensure_wifi.             *)
ApAbort ==
    /\ pc = "ap_loop"
    /\ pc' = "ap_raised"
    /\ dns_open' = FALSE
    /\ http_open' = FALSE
    /\ retry_count' = 0
    /\ resp' = "none"
    /\ sent' = FALSE
    /\ dnsReply' = None
    /\ dnsQuery' = None
    /\ req' = NoRequest
    /\ vres' = "none"
    /\ fails' = 0
    /\ clean' = TRUE
    /\ sub' = None
    /\ UNCHANGED << file, btn, elapsed, attempt, caller, conn, led, ap_active,
                    results, ret, savedPair, fired >>
    /\ UNCHANGED radioVars
    /\ UNCHANGED pureVars
    /\ UNCHANGED loopVars
    /\ UNCHANGED ntp

(* "if resp:" before dns_sock.sendto *)
IfResp_m(r) == TRUE
IfResp(r) == r # << >>

(* a datagram on dns_sock; recvfrom or sendto may raise OSError, which the  *)
(* handler swallows                                                        *)
DnsDatagram ==
    /\ pc = "ap_loop"
    /\ \E data \in DnsQueries, sendOk \in BOOLEAN :
          LET r == create_response(data, AP_IP) IN
          /\ dnsQuery' = data
          /\ req' = NoRequest
          /\ dnsReply' = IF IfResp(r) /\ sendOk THEN r ELSE None
    /\ UNCHANGED << pc, file, btn, elapsed, attempt, caller, conn, led,
                    ap_active, dns_open, http_open, retry_count, resp,
                    sent, results, ret, vres, fails, clean, sub, savedPair,
                    fired >>
    /\ UNCHANGED radioVars
    /\ UNCHANGED pureVars
    /\ UNCHANGED loopVars
    /\ UNCHANGED ntp

(* "if user_ssid:" *)
IfUserSsid_m(u) == TRUE
IfUserSsid(u) == u # << >>

(* a connection on http_sock whose handling ends within the pass *)
Respond(page, ok) ==
    /\ resp' = page
    /\ sent' = ok
    /\ vres' = "none"
    /\ UNCHANGED << pc, elapsed, caller, conn, retry_count, fails, clean, sub >>
    /\ UNCHANGED radioVars

HttpRequest ==
    /\ pc = "ap_loop"
    /\ \E r \in Requests, sendOk \in BOOLEAN, raises \in BOOLEAN :
          /\ req' = r
          /\ IF r.kind # "req"
             THEN /\ ~sendOk /\ ~raises
                  /\ Respond("none", FALSE)
             ELSE IF r.path = "/save" /\ SsidInQuery(r.query)
             THEN LET user_ssid == _url_decode(_parse_query(r.query, "ssid"))
                      user_pass == _url_decode(_parse_query(r.query, "password"))
                  IN IF IfUserSsid(user_ssid)
                     THEN /\ sendOk
                          /\ retry_count < MaxCount
                          /\ retry_count' = retry_count + 1
                          /\ resp' = "none"
                          /\ sent' = FALSE
                          /\ IF raises
                             THEN /\ pc' = "ap_loop"
                                  /\ vres' = "raised"
                                  /\ clean' = FALSE
                                  /\ fails' = 0
                                  /\ sta_active' = TRUE
                                  /\ UNCHANGED << elapsed, caller, conn, sub,
                                                  requests, heldSince >>
                             ELSE /\ pc' = "sta_poll"
                                  /\ sta_active' = TRUE
                                  /\ requests' = 1
                                  /\ heldSince' = (btn = 0)
                                  /\ vres' = "none"
                                  /\ conn' = << user_ssid, user_pass >>
                                  /\ sub' = << _parse_query(r.query, "ssid"),
                                               _parse_query(r.query, "password") >>
                                  /\ caller' = "ap"
                                  /\ elapsed' = 0
                                  /\ clean' = (retry_count = 0 \/ clean)
                                  /\ fails' = IF retry_count = 0 THEN 0 ELSE fails
                     ELSE /\ ~raises
                          /\ Respond("400", sendOk)
             ELSE /\ ~raises
                  /\ IF r.path \in {"/", "/index.html"}
                     THEN Respond("form", sendOk)
                     ELSE Respond("302", sendOk)
    /\ dnsReply' = None
    /\ dnsQuery' = None
    /\ UNCHANGED << file, btn, attempt, led, ap_active, dns_open, http_open,
                    results, ret, savedPair, fired >>
    /\ UNCHANGED pureVars
    /\ UNCHANGED loopVars
    /\ UNCHANGED ntp

(* ---- environment ---- *)
PressButton ==
    /\ btn = 1
    /\ btn' = 0
    /\ UNCHANGED << pc, file, elapsed, attempt, caller, conn, led, savedPair,
                    fired >>
    /\ UNCHANGED apVars
    /\ UNCHANGED staVars
    /\ UNCHANGED radioVars
    /\ UNCHANGED pureVars
    /\ UNCHANGED loopVars
    /\ UNCHANGED ntp

ReleaseButton ==
    /\ btn = 0
    /\ btn' = 1
    /\ heldSince' = FALSE
    /\ UNCHANGED << pc, file, elapsed, attempt, caller, conn, led, savedPair,
                    sta_active, requests, fired >>
    /\ UNCHANGED apVars
    /\ UNCHANGED staVars
    /\ UNCHANGED pureVars
    /\ UNCHANGED loopVars
    /\ UNCHANGED ntp

(* the device is switched off and on after ensure_wifi has ended *)
PowerCycle ==
    /\ pc \in {"returned", "raised", "ap_raised"}
    /\ Restart
    /\ savedPair' = None
    /\ fired' = FALSE
    /\ UNCHANGED file

Next ==
    \/ CheckResetButton
    \/ ResetPoll
    \/ HasCredentials
    \/ TryConnect
    \/ ConnectPoll
    \/ SyncTime
    \/ RestartAfterSave
    \/ StartAP
    \/ DnsDatagram
    \/ HttpRequest
    \/ ApAbort
    \/ PressButton
    \/ ReleaseButton
    \/ PowerCycle

Spec == Init /\ [][Next]_vars

TypeOK ==
    /\ pc \in {"boot", "reset_loop", "has_creds", "retries", "sta_poll",
               "connected", "returned", "raised", "ap_start", "ap_loop",
               "ap_returned", "ap_raised"}
    /\ btn \in {0, 1}
    /\ retry_count \in 0..MaxCount
    /\ sta_active \in BOOLEAN
    /\ requests \in {0, 1}
    /\ heldSince \in BOOLEAN
    /\ fired \in BOOLEAN
    /\ raised \in BOOLEAN

(***************************************************************************)
(* The functions of wifi_credentials.py called on their own, from every    *)
(* storage state                                                           *)
(***************************************************************************)
machineVars ==
    << pc, btn, elapsed, attempt, caller, conn, led, results, ret, savedPair,
       sta_active, requests, heldSince, fired, ntp >>

(* nothing of the provisioning machine has run *)
MachineFresh ==
    /\ btn = 1
    /\ elapsed = 0
    /\ caller = "none"
    /\ conn = None
    /\ led = 0
    /\ ap_active = FALSE
    /\ dns_open = FALSE
    /\ http_open = FALSE
    /\ retry_count = 0
    /\ resp = "none"
    /\ sent = FALSE
    /\ dnsReply = None
    /\ results = << >>
    /\ ret = "none"
    /\ vres = "none"
    /\ fails = 0
    /\ clean = TRUE
    /\ sub = None
    /\ savedPair = None
    /\ sta_active = FALSE
    /\ requests = 0
    /\ heldSince = FALSE
    /\ fired = FALSE
    /\ dnsQuery = None
    /\ req = NoRequest
    /\ ntp = "none"
    /\ LoopFresh

(* names: H, "H ", a quote, a backslash, a line feed, a control character,  *)
(* the two letters backslash n, and a name with a character above 127       *)
StoreInit ==
    /\ pc = "store"
    /\ attempt = 0
    /\ file \in { Absent, Garbage, Unreadable, NonObject, NoSsid(<< 112 >>),
                   JsonFile(<< >>, << 112 >>), JsonFile(<< 72 >>, << 112 >>) }
    /\ MachineFresh
    /\ op = "none"
    /\ input = None
    /\ out = None
    /\ raised = FALSE

StoreSave ==
    \E s \in { << 72 >>, << 72, 32 >>, << 34 >>, << 92 >>, << 10 >>, << 2 >>,
                << 92, 110 >>, << 233, 72 >> },
       p \in { << >>, << 112 >>, << 92, 34 >>, << 9 >> },
       o \in SaveOutcomes \cup {"cut"} :
       /\ file' = save_credentials(file, s, p, o)
       /\ op' = (IF o = "ok" THEN "save"
                 ELSE IF o = "cut" THEN "save_cut" ELSE "save_raised")
       /\ input' = << s, p >>
       /\ out' = None
       /\ raised' = (o \in {"open_fail", "write_fail"})
       /\ UNCHANGED machineVars
       /\ UNCHANGED apVars
       /\ UNCHANGED loopVars

StoreDelete ==
    /\ file' = delete_credentials(file)
    /\ op' = (IF op \in {"delete", "delete2"} THEN "delete2" ELSE "delete")
    /\ input' = None
    /\ out' = None
    /\ raised' = delete_raises(file)
    /\ UNCHANGED machineVars
    /\ UNCHANGED apVars
    /\ UNCHANGED loopVars

StoreRead ==
    /\ op' = "read"
    /\ out' = get_credentials(file)
    /\ raised' = (get_credentials(file) = AttributeError)
    /\ input' = None
    /\ UNCHANGED file
    /\ UNCHANGED machineVars
    /\ UNCHANGED apVars
    /\ UNCHANGED loopVars

StoreNext ==
    \/ StoreSave
    \/ StoreDelete
    \/ StoreRead

SpecStore == StoreInit /\ [][StoreNext]_vars

(***************************************************************************)
(* try_connect_sta_with_retries() called on its own, from every storage    *)
(* state get_credentials returns from                                      *)
(***************************************************************************)
StaInit ==
    /\ pc = "retries"
    /\ attempt = 1
    /\ file \in { Absent, Garbage, Unreadable, NoSsid(<< 112 >>),
                   JsonFile(<< >>, << 112 >>), JsonFile(<< 72 >>, << 112 >>),
                   JsonFile(<< 72, 32 >>, << >>) }
    /\ MachineFresh
    /\ op = "none"
    /\ input = None
    /\ out = None
    /\ raised = FALSE

StaNext ==
    \/ TryConnect
    \/ ConnectPoll

SpecSta == StaInit /\ [][StaNext]_vars

(***************************************************************************)
(* create_response of wifi_dns.py called on its own                        *)
(***************************************************************************)
(* a query for "H" that carries an EDNS OPT record in its additional        *)
(* section (ARCOUNT 1), as resolvers with EDNS send it                      *)
EdnsQuery ==
    << 7, 9, 1, 32, 0, 1, 0, 0, 0, 0, 0, 1 >> \o << 1, 72, 0, 0, 1, 0, 1 >>
       \o << 0, 0, 41, 4, 208, 0, 0, 0, 0, 0, 0 >>

(* queries with no question, the root name, the name "H", and an AAAA      *)
(* question for "www", under three ids; and texts that are no whole query   *)
DnsInputs ==
    LET DnsIds == { << 0, 0 >>, << 7, 9 >>, << 255, 254 >> }
        DnsQuestions ==
            { << >>, << 0, 0, 1, 0, 1 >>, << 1, 72, 0, 0, 1, 0, 1 >>,
              << 3, 119, 119, 119, 0, 0, 28, 0, 1 >> }
    IN  { id \o << 1, 0, 0, 1, 0, 0, 0, 0, 0, 0 >> \o q :
              id \in DnsIds, q \in DnsQuestions }
        \cup { << >>, << 7 >>, SubSeq(DnsHeader, 1, 11), EdnsQuery }

DnsInit ==
    /\ pc = "dns"
    /\ attempt = 0
    /\ file = Absent
    /\ MachineFresh
    /\ op = "none"
    /\ LET \* "192.168.4.1", "0.0.0.0", "255.255.255.255", "10.0.0.1", "1.2.3.4"
           IpTexts ==
               { AP_IP,
                 << 48, 46, 48, 46, 48, 46, 48 >>,
                 << 50, 53, 53, 46, 50, 53, 53, 46, 50, 53, 53, 46, 50, 53, 53 >>,
                 << 49, 48, 46, 48, 46, 48, 46, 49 >>,
                 << 49, 46, 50, 46, 51, 46, 52 >> }
       IN  input \in { << d, a >> : d \in DnsInputs, a \in IpTexts }
    /\ out = None
    /\ raised = FALSE

CreateResponse ==
    /\ op = "none"
    /\ op' = "dns"
    /\ out' = create_response(input[1], input[2])
    /\ UNCHANGED << file, input, raised >>
    /\ UNCHANGED machineVars
    /\ UNCHANGED apVars
    /\ UNCHANGED loopVars

SpecDns == DnsInit /\ [][CreateResponse]_vars

(***************************************************************************)
(* scan_networks of wifi_ap.py called on its own, as the configuration     *)
(* page does for every request                                             *)
(***************************************************************************)
MaxNets == 2

(* bytes.decode("utf-8") of a name of one or two bytes: the text, or       *)
(* UnicodeError for bytes that are not UTF-8                               *)
UnicodeError == << -3 >>
Utf8Decode(b) ==
    IF Len(b) = 1 /\ b[1] < 128 THEN b
    ELSE IF Len(b) = 2 /\ b[1] \in 194..223 /\ b[2] \in 128..191
         THEN << (b[1] - 192) * 64 + (b[2] - 128) >>
    ELSE UnicodeError

(* ssid = n[0].decode("utf-8") if n[0] else "", with "" on any exception *)
ScanSsid(raw) ==
    IF raw = << >> THEN << >>
    ELSE IF Utf8Decode(raw) = UnicodeError THEN << >>
    ELSE Utf8Decode(raw)

(* "if ssid and ssid not in seen" *)
KeepNet_m(ssid, seen) == ssid # << >>
KeepNet(ssid, seen) == ssid # << >> /\ ssid \notin seen

(* the for loop over nets: result after the entries from i on *)
RECURSIVE ScanLoop(_, _, _, _)
ScanLoop(nets, i, seen, result) ==
    IF i > Len(nets) THEN result
    ELSE LET ssid == ScanSsid(nets[i][1]) IN
         IF KeepNet(ssid, seen)
         THEN ScanLoop(nets, i + 1, seen \cup {ssid}, Append(result, << ssid, nets[i][2] >>))
         ELSE ScanLoop(nets, i + 1, seen, result)

(* result.sort(key=rssi, reverse=True): the sort of MicroPython is not     *)
(* stable, so entries of equal strength may come out in any order          *)
SortOutcomes(result) ==
    LET n == Len(result)
        perms == { f \in [1..n -> 1..n] : \A i, j \in 1..n : f[i] = f[j] => i = j }
    IN { [i \in 1..n |-> result[f[i]]] : f \in
            { g \in perms : \A i \in 1..(n - 1) : result[g[i]][2] >= result[g[i + 1]][2] } }

scan_networks(nets) == SortOutcomes(ScanLoop(nets, 1, {}, << >>))

(* names as the radio reports them: "H", a hidden network, the             *)
(* Latin-1 byte of e-acute (not UTF-8) and the UTF-8 bytes of e-acute      *)
ScanLists ==
    LET ScanNames == { << 72 >>, << >>, << 233 >>, << 195, 169 >> }
        ScanRssi == { -40, -55, -70 }
    IN  UNION { [1..n -> { << name, rssi >> : name \in ScanNames, rssi \in ScanRssi }] :
                   n \in 0..MaxNets }

ScanInit ==
    /\ pc = "scan"
    /\ attempt = 0
    /\ file = Absent
    /\ MachineFresh
    /\ op = "none"
    /\ input = None
    /\ out = None
    /\ raised = FALSE

(* one request for the configuration page: a scan, then scan_networks *)
ScanNetworks ==
    /\ \E nets \in ScanLists :
          /\ input' = nets
          /\ out' \in scan_networks(nets)
    /\ op' = "scan"
    /\ sta_active' = TRUE
    /\ UNCHANGED << file, raised >>
    /\ UNCHANGED << pc, btn, elapsed, attempt, caller, conn, led, results, ret,
                    savedPair, requests, heldSince, fired, ntp >>
    /\ UNCHANGED apVars
    /\ UNCHANGED loopVars

SpecScan == ScanInit /\ [][ScanNetworks]_vars

(***************************************************************************)
(* main.py: the polling loop _main_loop, the app writing to the cloud      *)
(* store, and get_distance                                                 *)
(***************************************************************************)
MaxTime == 140000

ON == << 79, 78 >>
OFF == << 79, 70, 70 >>
True == << -10 >>
False == << -11 >>

THIRTY_MINUTES_MS == 60 * 1000
SleepMs == 2000

(* utime.ticks_ms() and utime.ticks_diff() of the port: 30-bit ticks *)
TICKS_PERIOD == 1073741824
ticks_ms(t) == t % TICKS_PERIOD
ticks_diff(a, b) ==
    ((a - b + TICKS_PERIOD \div 2) % TICKS_PERIOD) - TICKS_PERIOD \div 2

(* str.strip(c) and str.lower() *)
RECURSIVE LStrip(_, _)
LStrip(t, c) == IF t # << >> /\ t[1] = c THEN LStrip(Tail(t), c) ELSE t
RECURSIVE RStrip(_, _)
RStrip(t, c) ==
    IF t # << >> /\ t[Len(t)] = c THEN RStrip(SubSeq(t, 1, Len(t) - 1), c) ELSE t
Strip(t, c) == RStrip(LStrip(t, c), c)
Lower(t) == [i \in 1..Len(t) |-> IF t[i] \in 65..90 THEN t[i] + 32 ELSE t[i]]

(* sys_cmd_clean = str(sys_cmd).strip('"').strip("'") *)
Clean(sys_cmd) == Strip(Strip(sys_cmd, 34), 39)

(* is_request, for a boolean or a string *)
IsRequest(manual_update) ==
    IF manual_update = True THEN TRUE
    ELSE IF manual_update = False THEN FALSE
    ELSE Strip(Strip(Lower(manual_update), 34), 39) = << 116, 114, 117, 101 >>

(* RELAY_PIN.low() for ON, RELAY_PIN.high() for OFF *)
RelayLevel_m(c) == IF c = ON THEN 1 ELSE 0
RelayLevel(c) == IF c = ON THEN 0 ELSE 1

(* "if sys_cmd_clean != last_processed_sys_cmd" *)
NewCommand(c, last) == c # last

(* "ticks_diff(...) > THIRTY_MINUTES_MS" *)
PeriodicDue_m(d) == d >= THIRTY_MINUTES_MS
PeriodicDue(d) == d > THIRTY_MINUTES_MS

(* "if reset_r.status_code != 200 ... else", by the outcome of the patch *)
AckVerified_m(a) == a \in {"200", "non200"}
AckVerified(a) == a = "200"

(* first position from i on where the echo samples differ from v *)
RECURSIVE Run(_, _, _)
Run(e, i, v) ==
    IF i > Len(e) THEN i ELSE IF e[i] = v THEN Run(e, i + 1, v) ELSE i

(* get_distance on the levels e the echo line shows at the successive       *)
(* ECHO.value() calls, the last level staying for ever: "returned",         *)
(* "hung" in one of the two while loops, or "NameError" when a loop body    *)
(* never ran and signaloff or signalon is unbound                           *)
get_distance_m(e) ==
    LET i1 == Run(e, 1, 0)
        i2 == Run(e, i1 + 1, 1)
    IN  IF i1 > Len(e) \/ i2 > Len(e) THEN "returned"
        ELSE IF i1 = 1 \/ i2 = i1 + 1 THEN "NameError"
        ELSE "returned"
get_distance(e) ==
    LET i1 == Run(e, 1, 0)
        i2 == Run(e, i1 + 1, 1)
    IN  IF i1 > Len(e) \/ i2 > Len(e) THEN "hung"
        ELSE IF i1 = 1 \/ i2 = i1 + 1 THEN "NameError"
        ELSE "returned"

(* echo pulses: a regular one, one over before the second loop looks, the   *)
(* line never rising, never falling, stuck high from the start              *)
EchoTraces ==
    { << 0, 1, 1, 0 >>, << 0, 1, 0 >>, << 0 >>, << 0, 1 >>, << 1 >> }


(* what the polling loop never touches *)
idleVars ==
    << file, btn, elapsed, attempt, caller, conn, led, results, ret, savedPair,
       sta_active, requests, heldSince, fired, ntp, wifi_config >>

(* the locals and globals of a pass at its start *)
PassStart(p) ==
    [poll |-> p, response |-> command,
     relay |-> RELAY_PIN, sys |-> last_processed_sys_cmd,
     man |-> last_processed_manual_update, store |-> command,
     last |-> last_periodic_check,
     writes |-> 0, updates |-> << >>, ack |-> "none", echo |-> None,
     err |-> FALSE, exit |-> IF p = "raise" THEN "caught" ELSE "run"]

(* update_firebase(is_on, get_distance()) called for the reason why: the    *)
(* argument is evaluated first, the update runs only if it returns          *)
Update(st, why, e) ==
    LET d == get_distance(e) IN
    [st EXCEPT !.echo = e,
               !.updates = IF d = "returned" THEN Append(@, why) ELSE @,
               !.exit = CASE d = "returned" -> "run"
                          [] d = "hung" -> "hung"
                          [] OTHER -> IF why = "periodic" THEN "stopped" ELSE "caught"]

(* lines 1257-1280 *)
AfterCmd(st) ==
    LET sys_cmd == st.response.system_cmd IN
    IF sys_cmd = None \/ sys_cmd = << >> THEN {st}
    ELSE LET c == Clean(sys_cmd) IN
         IF NewCommand(c, st.sys) /\ c \in {ON, OFF}
         THEN { LET u == Update([st EXCEPT !.relay = RelayLevel(c), !.writes = @ + 1],
                                "cmd", e)
                IN  IF u.exit = "run" THEN [u EXCEPT !.sys = c] ELSE u :
                  e \in EchoTraces }
         ELSE {st}

(* the patch that resets manual_update, lines 1307-1316 *)
Ack(st, a) ==
    [st EXCEPT !.ack = a,
               !.store = IF a \in {"200", "lost", "cut"}
                         THEN [@ EXCEPT !.manual_update = False] ELSE @,
               !.man = IF AckVerified(a) THEN st.response.manual_update ELSE @,
               !.exit = CASE a \in {"raise", "lost"} -> "caught"
                          [] a = "cut" -> "cut"
                          [] OTHER -> "run"]

(* lines 1284-1322 *)
AfterManual(st) ==
    LET manual_update == st.response.manual_update IN
    IF st.exit # "run" \/ manual_update = None THEN {st}
    ELSE IF IsRequest(manual_update) /\ manual_update # st.man
         THEN UNION { LET u == Update(st, "manual", e) IN
                      IF u.exit = "run" THEN { Ack(u, a) : a \in { "200", "non200", "raise", "lost", "cut" } }
                      ELSE {u} :
                        e \in EchoTraces }
    ELSE IF IsRequest(manual_update) THEN {st}
    ELSE {[st EXCEPT !.man = None]}

(* the except handler of line 1330, then lines 1336-1339 at the time t *)
AfterPeriodic(st, t) ==
    IF st.exit \notin {"run", "caught"} THEN {st}
    ELSE LET s0 == [st EXCEPT !.err = (st.exit = "caught"), !.exit = "run"] IN
         IF s0.relay = 0 /\ PeriodicDue(ticks_diff(ticks_ms(t), s0.last))
         THEN { LET u == Update(s0, "periodic", e) IN
                IF u.exit = "run" THEN [u EXCEPT !.last = ticks_ms(t)] ELSE u :
                  e \in EchoTraces }
         ELSE {s0}

(* one pass of the while loop of _main_loop, the poll taking dt *)
PassOutcomes(p, t) ==
    LET st == PassStart(p)
        empty == command.system_cmd = None /\ command.manual_update = None
    IN  IF p = "ok" /\ ~empty
        THEN UNION { UNION { AfterPeriodic(s2, t) : s2 \in AfterManual(s1) } :
                        s1 \in AfterCmd(st) }
        ELSE AfterPeriodic(st, t)

LoopPass ==
    /\ pc = "main_loop"
    /\ \E p \in { "ok", "non200", "raise" }, dt \in { 18000, 58000 } :
          /\ now + dt + SleepMs <= MaxTime
          /\ \E st \in PassOutcomes(p, now + dt) :
                /\ iter' = [seq |-> IF iter = NoPass THEN 1 ELSE 1 - iter.seq,
                            poll |-> st.poll, response |-> st.response,
                            writes |-> st.writes, updates |-> st.updates,
                            ack |-> st.ack, echo |-> st.echo, err |-> st.err,
                            exit |-> st.exit]
                /\ command' = st.store
                /\ pending' = (pending /\ \A i \in 1..Len(st.updates) :
                                             st.updates[i] # "manual")
                /\ IF st.exit = "cut"
                   THEN /\ pc' = "main_loop"
                        /\ RELAY_PIN' = 1
                        /\ last_processed_sys_cmd' = None
                        /\ last_processed_manual_update' = None
                        /\ last_periodic_check' = 0
                        /\ now' = 0
                   ELSE /\ pc' = CASE st.exit = "hung" -> "hung"
                                    [] st.exit = "stopped" -> "stopped"
                                    [] OTHER -> "main_loop"
                        /\ RELAY_PIN' = st.relay
                        /\ last_processed_sys_cmd' = st.sys
                        /\ last_processed_manual_update' = st.man
                        /\ last_periodic_check' = st.last
                        /\ now' = IF st.exit = "run" THEN now + dt + SleepMs
                                  ELSE now + dt
    /\ UNCHANGED idleVars
    /\ UNCHANGED apVars
    /\ UNCHANGED pureVars

(* the app writes a command *)
AppCommand ==
    /\ \E c \in { ON, OFF, << 34, 79, 78, 34 >>, << 111, 110 >>, << >> } :
          /\ c # command.system_cmd
          /\ command' = [command EXCEPT !.system_cmd = c]
    /\ UNCHANGED << pc, RELAY_PIN, last_processed_sys_cmd,
                    last_processed_manual_update, last_periodic_check, now,
                    pending, iter >>
    /\ UNCHANGED idleVars
    /\ UNCHANGED apVars
    /\ UNCHANGED pureVars

(* the app raises a manual update *)
AppManualUpdate ==
    /\ command.manual_update \in {None, False}
    /\ \E v \in { True, << 84, 114, 117, 101 >> } :
          command' = [command EXCEPT !.manual_update = v]
    /\ pending' = TRUE
    /\ UNCHANGED << pc, RELAY_PIN, last_processed_sys_cmd,
                    last_processed_manual_update, last_periodic_check, now, iter >>
    /\ UNCHANGED idleVars
    /\ UNCHANGED apVars
    /\ UNCHANGED pureVars

(* the device is switched off and on: run() starts the loop again *)
LoopPowerCycle ==
    /\ pc \in {"hung", "stopped"}
    /\ pc' = "main_loop"
    /\ RELAY_PIN' = 1
    /\ last_processed_sys_cmd' = None
    /\ last_processed_manual_update' = None
    /\ last_periodic_check' = 0
    /\ now' = 0
    /\ iter' = NoPass
    /\ UNCHANGED << command, pending >>
    /\ UNCHANGED idleVars
    /\ UNCHANGED apVars
    /\ UNCHANGED pureVars

LoopInit ==
    /\ pc = "main_loop"
    /\ attempt = 0
    /\ file = Absent
    /\ MachineFresh
    /\ op = "none"
    /\ input = None
    /\ out = None
    /\ raised = FALSE

LoopNext == LoopPass \/ AppCommand \/ AppManualUpdate \/ LoopPowerCycle

SpecLoop == LoopInit /\ [][LoopNext]_vars

(***************************************************************************)
(* main.py: connect_to_wifi of the terminal and web managers, and           *)
(* connect_wifi of the next start                                           *)
(***************************************************************************)
(* load_wifi_config: json.loads and config.get, (None, None) on any         *)
(* exception of the bare except                                             *)
load_wifi_config(f) ==
    IF f.kind = "json" THEN << JsonLoadStr(f.ssid), JsonLoadStr(f.password) >>
    ELSE << None, None >>

(* save_wifi_config: the file it leaves; it returns True when outcome is ok *)
save_wifi_config(f, ssid, password, outcome) ==
    IF outcome = "ok" THEN JsonFile(ssid, password)
    ELSE IF outcome = "open_fail" THEN f
    ELSE Garbage

(* delete_wifi_config *)
delete_wifi_config(f, removed) == IF removed THEN Absent ELSE f

(* the file connect_to_wifi leaves: line 846 runs before the connect of     *)
(* line 859, whatever comes of it                                           *)
connect_to_wifi_m(f, ssid, password, outcome, c) ==
    IF c = "connected" THEN save_wifi_config(f, ssid, password, outcome) ELSE f
connect_to_wifi(f, ssid, password, outcome, c) ==
    save_wifi_config(f, ssid, password, outcome)

(* "H", a name with a quote and a backslash; a password, an open network,   *)
(* a password with a space                                                  *)
MainSsids == { << 72 >>, << 72, 34, 92 >> }
MainPasswords == { << 112 >>, << >>, << 112, 32 >> }
ConnectOutcomes == { "connected", "timeout", "raise" }

MainInit ==
    /\ pc = "main_boot"
    /\ attempt = 0
    /\ file = Absent
    /\ MachineFresh
    /\ op = "none"
    /\ input = None
    /\ out = None
    /\ raised = FALSE

mainIdle ==
    << file, btn, elapsed, attempt, caller, conn, led, results, ret, savedPair,
       sta_active, requests, heldSince, fired, ntp, RELAY_PIN,
       last_processed_sys_cmd, last_processed_manual_update,
       last_periodic_check, now, command, pending, iter, raised >>

(* connect_wifi at the start of run(): reset check, load, the interactive   *)
(* manager when there is no name, connect                                   *)
ConnectWifi ==
    /\ pc = "main_boot"
    /\ \E held \in BOOLEAN, removed \in BOOLEAN, outcome \in SaveOutcomes,
          c \in ConnectOutcomes,
          chosen \in { << None, None >> }
                        \cup { << s, w >> : s \in MainSsids, w \in MainPasswords } :
          LET f1 == IF held THEN delete_wifi_config(wifi_config, removed)
                    ELSE wifi_config
              stored == load_wifi_config(f1)
              ask == NotSsid(stored[1])
              pair == IF ask THEN chosen ELSE stored
              f2 == IF ask /\ ~NotSsid(chosen[1])
                    THEN save_wifi_config(f1, chosen[1], chosen[2], outcome)
                    ELSE f1
          IN  /\ ~held => removed
              /\ ~(ask /\ ~NotSsid(chosen[1])) => outcome = "ok"
              /\ ~ask => chosen = << None, None >>
              /\ NotSsid(pair[1]) => c = "timeout"
              /\ wifi_config' = f2
              /\ op' = "connect_wifi"
              /\ input' = pair
              /\ out' = IF NotSsid(pair[1]) THEN << "none", "none" >>
                        ELSE << IF held THEN "reset" ELSE "kept", c >>
    /\ pc' = "main_run"
    /\ UNCHANGED mainIdle
    /\ UNCHANGED apVars

(* connect_to_wifi(ssid, password), called by "wifi connect" of the         *)
(* terminal and by the /connect form of the web manager with a name that    *)
(* is not empty                                                             *)
ConnectToWifi ==
    /\ pc = "main_run"
    /\ \E ssid \in MainSsids, password \in MainPasswords,
          outcome \in SaveOutcomes, c \in ConnectOutcomes :
          /\ wifi_config' = connect_to_wifi(wifi_config, ssid, password, outcome, c)
          /\ op' = "connect_to_wifi"
          /\ input' = << ssid, password >>
          /\ out' = << outcome, c >>
    /\ pc' = "main_run"
    /\ UNCHANGED mainIdle
    /\ UNCHANGED apVars

(* the device is switched off and on *)
MainPowerCycle ==
    /\ pc = "main_run"
    /\ pc' = "main_boot"
    /\ UNCHANGED << wifi_config, op, input, out >>
    /\ UNCHANGED mainIdle
    /\ UNCHANGED apVars

MainNext == ConnectWifi \/ ConnectToWifi \/ MainPowerCycle

SpecMain == MainInit /\ [][MainNext]_vars


(***************************************************************************)
(* Properties                                                              *)
(***************************************************************************)
Last(q) == q[Len(q)]

(* connect_sta calls made so far by the running try_connect_sta_with_retries *)
Calls ==
    Len(results) + (IF pc = "raised" \/ (pc = "sta_poll" /\ caller = "retries")
                    THEN 1 ELSE 0)

(* C1: try_connect_sta_with_retries calls connect_sta() at most MAX_RETRIES *)
(* times, each time with the stored pair; no call follows a call that       *)
(* returned True, True is returned with that call, and False is returned    *)
(* exactly when MAX_RETRIES calls have all returned False.                  *)
C1_BoundedRetry ==
    /\ Calls <= MAX_RETRIES
    /\ (pc = "sta_poll" /\ caller = "retries") => conn = get_credentials(file)
    /\ \A i \in 1..(Calls - 1) : results[i] = FALSE
    /\ (results # << >> /\ Last(results)) <=> ret = "true"
    /\ ret = "false" <=>
          (Len(results) = MAX_RETRIES /\ \A i \in 1..Len(results) : ~results[i])

C1_Witness ==
    /\ ret = "false"
    /\ Len(results) = MAX_RETRIES
    /\ pc = "ap_start"

(* C2: counted from a retry counter of 0, the k-th failed validation in a   *)
(* row is answered with the retrying page for k < MAX_RETRIES and with the  *)
(* exhausted page for k = MAX_RETRIES, which sets the counter back to 0;    *)
(* the credential file is not written.                                      *)
C2_FailurePages ==
    [][(pc = "sta_poll" /\ caller = "ap" /\ vres' = "false" /\ clean) =>
          /\ fails + 1 <= MAX_RETRIES
          /\ retry_count = fails + 1
          /\ resp' = IF fails + 1 < MAX_RETRIES THEN "retrying" ELSE "exhausted"
          /\ retry_count' = IF fails + 1 < MAX_RETRIES THEN fails + 1 ELSE 0
          /\ file' = file]_vars

C2_Witness ==
    /\ pc = "ap_loop"
    /\ resp = "exhausted"
    /\ clean
    /\ fails = MAX_RETRIES
    /\ retry_count = 0
    /\ file = Absent

(* C3: retry_count never exceeds MAX_RETRIES. *)
C3_RetryCountBounded == retry_count <= MAX_RETRIES

(* the text each raw form value of the inputs stands for *)
Decoded(raw) ==
    CASE raw = << 72 >> -> << 72 >>
      [] raw = << 72, 43 >> -> << 72, 32 >>
      [] raw = << 37, 50, 50 >> -> << 34 >>
      [] raw = << 112 >> -> << 112 >>
      [] raw = << 37, 53, 67 >> -> << 92 >>

ApRunning == pc = "ap_loop" \/ (pc = "sta_poll" /\ caller = "ap")

(* C4: while the AP configurator runs, the credential file changes only in  *)
(* the pass in which connect_sta returned True for the submitted pair, and  *)
(* a record written then reads back as the URL-decoded submitted pair.      *)
C4_WriteOnlyValidated ==
    [][(ApRunning /\ file' # file) =>
          /\ pc = "sta_poll"
          /\ vres' = "true"
          /\ conn = << Decoded(sub[1]), Decoded(sub[2]) >>
          /\ file' = Garbage \/ get_credentials(file') = conn]_vars

C4_Witness ==
    /\ pc = "ap_loop"
    /\ vres = "true"
    /\ get_credentials(file) = << << 72, 32 >>, << 92 >> >>

(* C5: every /save whose validation connect returns True persists the pair *)
(* and ends run_ap_config_loop with success.                                *)
C5_ValidatedSaveReturns ==
    [][(pc = "sta_poll" /\ caller = "ap" /\ vres' = "true") =>
          /\ get_credentials(file') = conn
          /\ pc' = "ap_returned"]_vars

(* C6: on a device without credential file no client connect is attempted  *)
(* and AP mode is entered; a submission whose validation connect succeeds   *)
(* then leaves exactly that pair in the file and leads to the restart.      *)
C6_FreshDevice ==
    [][/\ (pc = "has_creds" /\ file = Absent /\ pc' # pc) =>
             (pc' = "ap_start" /\ results' = << >>)
       /\ (pc = "sta_poll" /\ caller = "ap" /\ results = << >> /\ file = Absent
             /\ vres' = "true") =>
             (file' = JsonFile(conn[1], conn[2]) /\ pc' = "ap_returned")]_vars

(* C7: when a client connect attempt with the stored record succeeds,       *)
(* ensure_wifi returns with the LED on; the access point is not active, no  *)
(* listener is open and the firmware performs no restart.                   *)
C7_StoredValidNoAP ==
    [][/\ (results' # results /\ results' # << >> /\ Last(results')) =>
             pc' = "connected"
       /\ pc' \in {"connected", "returned"} =>
             (ret' = "true" /\ led' = 1 /\ ~ap_active' /\ ~dns_open' /\ ~http_open')
       /\ pc = "connected" => pc' \in {"connected", "returned"}
       /\ (pc = "returned" /\ ~PowerCycle) => pc' = "returned"]_vars

C7_Witness ==
    /\ pc = "returned"
    /\ Len(results) = 2
    /\ led = 1
    /\ ~ap_active

InApBranch == pc \in {"ap_start", "ap_loop", "ap_returned"} \/ ApRunning

(* C8: without a stored record, or after MAX_RETRIES failed attempts,       *)
(* ensure_wifi enters the AP branch; it leaves the branch only by the       *)
(* restart that follows a successful run_ap_config_loop, never by return    *)
(* (an exception out of run_ap_config_loop is not a return).                *)
C8_ApFallback ==
    [][/\ (pc = "has_creds" /\ ~has_credentials(file) /\ pc' # pc) => pc' = "ap_start"
       /\ (ret # "false" /\ ret' = "false") => pc' = "ap_start"
       /\ InApBranch => (InApBranch' \/ (pc = "ap_returned" /\ pc' = "boot")
                           \/ pc' = "ap_raised")
       /\ pc = "ap_returned" => pc' \in {"ap_returned", "boot"}]_vars

C8_Witness ==
    /\ pc = "ap_returned"
    /\ ret = "false"
    /\ Len(results) = MAX_RETRIES

(* C9: the restart after a validated save keeps the saved record; the next  *)
(* run of ensure_wifi finds it, connects with exactly the saved pair,       *)
(* returns connected when an attempt succeeds, and when all attempts fail   *)
(* enters the AP branch with the record still stored.                       *)
C9_ProvisioningCycle ==
    [][/\ (pc = "ap_returned" /\ pc' = "boot") =>
             (savedPair' # None /\ get_credentials(file') = savedPair')
       /\ (savedPair # None /\ pc = "has_creds" /\ pc' # pc) => pc' = "retries"
       /\ (savedPair # None /\ pc = "retries" /\ pc' = "sta_poll") => conn' = savedPair
       /\ (savedPair # None /\ pc = "sta_poll" /\ caller = "retries"
             /\ results' # results /\ Last(results')) => pc' = "connected"
       /\ (savedPair # None /\ pc = "connected" /\ pc' # pc) => pc' = "returned"
       /\ (savedPair # None /\ ret # "false" /\ ret' = "false") =>
             (pc' = "ap_start" /\ get_credentials(file') = savedPair)]_vars

C9_Witness ==
    /\ pc = "returned"
    /\ savedPair = << << 34 >>, << 92 >> >>
    /\ get_credentials(file) = savedPair

ResetAction ==
    pc = "reset_loop" /\ btn = 0 /\ btn' = btn /\ elapsed >= RESET_HOLD_SEC * 1000

C11_ResetErasesThenRestarts ==
    [][/\ ResetAction => (file' = Absent /\ pc' = "boot" /\ fired')
       /\ (fired /\ pc \in {"boot", "reset_loop", "has_creds"}) =>
             ~has_credentials(file)
       /\ (fired /\ pc = "has_creds" /\ pc' # pc) =>
             (pc' = "ap_start" /\ results' = << >> /\ conn' = None
                /\ ~sta_active')
       /\ (fired /\ pc = "ap_start") => (Calls = 0 /\ ret = "none")]_vars

C11_Witness ==
    /\ fired
    /\ pc = "ap_start"
    /\ btn = 1
    /\ file = Absent
    /\ Calls = 0

(* The reset gesture is complete: the line has been active during all of    *)
(* the RESET_HOLD_SEC or more that the running timed loop has measured.     *)
Gesture ==
    /\ pc \in {"reset_loop", "sta_poll"}
    /\ btn = 0
    /\ heldSince
    /\ elapsed >= RESET_HOLD_SEC * 1000

(* C12 as stated: in whatever state the gesture is completed, the step the  *)
(* firmware takes next erases the credentials and restarts.                 *)
C12_GestureAnyState ==
    [][(Gesture /\ btn' = btn) => (file' = Absent /\ pc' = "boot")]_vars

(* C12 amended: the gesture erases and restarts only when it is completed   *)
(* inside check_reset_button, which ensure_wifi calls once at its start; a  *)
(* gesture completed while connect_sta polls, for the retry loop or for the *)
(* AP configurator, erases nothing and restarts nothing, and no record is   *)
(* erased anywhere outside check_reset_button.                              *)
C12_GestureOnlyAtBoot ==
    [][/\ (Gesture /\ pc = "reset_loop" /\ btn' = btn) =>
             (file' = Absent /\ pc' = "boot" /\ fired')
       /\ (Gesture /\ pc = "sta_poll" /\ btn' = btn) =>
             (pc' # "boot" /\ fired' = fired /\ (file' = file \/ file' # Absent))
       /\ (file # Absent /\ file' = Absent) => pc = "reset_loop"]_vars

C12_Witness ==
    /\ Gesture
    /\ pc = "sta_poll"
    /\ caller = "ap"
    /\ has_credentials(file)
    /\ ap_active

(* C13: when the line does not read active at the call, check_reset_button  *)
(* returns at once: the next position is the has_credentials test, and the  *)
(* file, the timers and everything else are as they were; no restart, no    *)
(* polling loop.                                                            *)
C13_InactiveLineNoEffect ==
    [][(pc = "boot" /\ btn = 1 /\ btn' = btn) =>
          /\ pc' = "has_creds"
          /\ file' = file
          /\ elapsed' = 0
          /\ ~heldSince'
          /\ fired' = fired
          /\ savedPair' = savedPair
          /\ led' = led
          /\ UNCHANGED apVars
          /\ UNCHANGED staVars]_vars

C13_Witness ==
    /\ pc = "has_creds"
    /\ btn = 1
    /\ elapsed = 0
    /\ savedPair # None
    /\ has_credentials(file)

(* C14: after save_credentials(c) has returned, whatever the file held      *)
(* before, get_credentials() returns exactly c and has_credentials() is     *)
(* True; after delete_credentials() it returns (None, None).  This holds    *)
(* after every sequence of save, delete and read operations.                *)
C14_RoundTrip ==
    /\ op = "save" => (get_credentials(file) = input /\ has_credentials(file))
    /\ op \in {"delete", "delete2"} =>
          (get_credentials(file) = << None, None >> /\ ~has_credentials(file))

C14_Witness ==
    /\ op = "save"
    /\ input = << << 92, 110 >>, << 92, 34 >> >>
    /\ get_credentials(file) = input

(* C15: delete_credentials never raises and leaves no file, whatever the    *)
(* file was, an absent file included; a second delete changes nothing.      *)
C15_DeleteIdempotent ==
    /\ op \in {"delete", "delete2"} => (file = Absent /\ ~raised)
    /\ ~delete_raises(file)
    /\ delete_credentials(delete_credentials(file)) = delete_credentials(file)
    /\ ~delete_raises(delete_credentials(file))

C15_Witness ==
    /\ op = "delete2"
    /\ file = Absent
    /\ ~raised

WellFormed(f) == f.kind = "json" /\ JsonLoadStr(f.ssid) # << >>

(* C16: in every storage state that is not a well-formed record with a      *)
(* non-empty ssid, get_credentials returns (None, None) without raising and *)
(* has_credentials is False.                                                *)
C16_FailsSoft ==
    (op = "read" /\ ~WellFormed(file)) =>
       (~raised /\ out = << None, None >> /\ ~has_credentials(file))

(* C17: a save_credentials over a stored record, completed, failed or cut   *)
(* off, leaves a file from which get_credentials reads the whole prior      *)
(* record or the whole new one.                                             *)
C17_AtomicOverwrite ==
    [][(WellFormed(file) /\ op' \in {"save", "save_raised", "save_cut"}) =>
          get_credentials(file') \in {get_credentials(file), input'}]_vars

(* C18: connect_sta() without arguments takes the pair get_credentials      *)
(* returns; when there is no stored record it returns False in the same     *)
(* step, with the client radio not activated, no connect request issued and *)
(* no polling; with a record it activates the radio and issues one request  *)
(* for exactly the stored pair, unless the driver raises.                   *)
C18_NoRecordNoRadio ==
    [][pc = "retries" =>
          IF has_credentials(file)
          THEN \/ pc' = "raised"
               \/ /\ pc' = "sta_poll"
                  /\ conn' = get_credentials(file)
                  /\ sta_active'
                  /\ requests' = 1
          ELSE /\ results' = Append(results, FALSE)
               /\ pc' # "sta_poll"
               /\ conn' = None
               /\ ~sta_active'
               /\ requests' = 0
               /\ elapsed' = 0]_vars

C18_Witness ==
    /\ pc = "ap_start"
    /\ file = Absent
    /\ ret = "false"
    /\ Len(results) = MAX_RETRIES
    /\ ~sta_active

(* C19: while connect_sta polls, exactly one connect request has been       *)
(* issued and none is added; a poll before the timeout either returns True  *)
(* or sleeps one interval; False is returned only by a poll at which        *)
(* CONNECT_TIMEOUT_SEC has elapsed, and no poll is left waiting then, so    *)
(* the time measured never exceeds the timeout plus one interval.           *)
C19_OneRequestBoundedPoll ==
    [][(pc = "sta_poll" /\ btn' = btn) =>
          /\ requests = 1
          /\ conn # None /\ conn[1] # << >>
          /\ elapsed <= CONNECT_TIMEOUT_SEC * 1000 + ConnectPollMs
          /\ pc' = "sta_poll" =>
                /\ elapsed < CONNECT_TIMEOUT_SEC * 1000
                /\ elapsed' = elapsed + ConnectPollMs
                /\ requests' = 1
                /\ conn' = conn
          /\ pc' # "sta_poll" =>
                /\ requests' = 0
                /\ IF caller = "retries"
                   THEN /\ Len(results') = Len(results) + 1
                        /\ ~Last(results') => elapsed >= CONNECT_TIMEOUT_SEC * 1000
                   ELSE /\ vres' \in {"true", "false"}
                        /\ vres' = "false" => elapsed >= CONNECT_TIMEOUT_SEC * 1000]_vars

C19_Witness ==
    /\ pc = "sta_poll"
    /\ caller = "ap"
    /\ requests = 1
    /\ elapsed = CONNECT_TIMEOUT_SEC * 1000

(* the four octets each address text stands for *)
Octets(a) ==
    CASE a = AP_IP -> << 192, 168, 4, 1 >>
      [] a = << 48, 46, 48, 46, 48, 46, 48 >> -> << 0, 0, 0, 0 >>
      [] a = << 49, 48, 46, 48, 46, 48, 46, 49 >> -> << 10, 0, 0, 1 >>
      [] a = << 49, 46, 50, 46, 51, 46, 52 >> -> << 1, 2, 3, 4 >>
      [] OTHER -> << 255, 255, 255, 255 >>

(* C20: for every query of 12 bytes or more and every address,              *)
(* create_response is not empty, starts with the two bytes of the query's   *)
(* transaction ID and ends with the four octets of the address, whatever    *)
(* the question section holds.                                              *)
C20_AlwaysRedirect ==
    (op = "dns" /\ Len(input[1]) >= 12) =>
       /\ out # << >>
       /\ SubSeq(out, 1, 2) = SubSeq(input[1], 1, 2)
       /\ SubSeq(out, Len(out) - 3, Len(out)) = Octets(input[2])

C20_Witness ==
    /\ op = "dns"
    /\ input = << << 255, 254, 1, 0, 0, 1, 0, 0, 0, 0, 0, 0,
                     3, 119, 119, 119, 0, 0, 28, 0, 1 >>,
                  << 49, 48, 46, 48, 46, 48, 46, 49 >> >>
    /\ out = << 255, 254, 129, 128, 0, 1, 0, 1, 0, 0, 0, 0,
                3, 119, 119, 119, 0, 0, 28, 0, 1,
                192, 12, 0, 1, 0, 1, 0, 0, 0, 60, 0, 4, 10, 0, 0, 1 >>

(* C21: create_response of an input shorter than 12 bytes is empty, and     *)
(* for such a datagram the AP loop sends nothing back; what it does send    *)
(* back is the non-empty response to the datagram received.                 *)
C21_ShortQueryNoReply ==
    /\ \A d \in DnsInputs \cup DnsQueries :
          Len(d) < 12 => create_response(d, AP_IP) = << >>
    /\ (dnsQuery # None /\ Len(dnsQuery) < 12) => dnsReply = None
    /\ dnsReply # None =>
          /\ dnsQuery # None
          /\ dnsReply # << >>
          /\ dnsReply = create_response(dnsQuery, AP_IP)

C21_Witness ==
    /\ pc = "ap_loop"
    /\ dnsQuery = SubSeq(DnsHeader, 1, 11)
    /\ dnsReply = None

(* a step of the AP loop that accepted a connection on http_sock *)
HttpPass == pc = "ap_loop" /\ btn' = btn /\ req' # NoRequest

(* /save?ssid=&password=p and /save?ssid=H&ssid= *)
EmptySsidRequests ==
    { Req("/save", << Part("ssid", << >>), Part("password", << 112 >>) >>),
      Req("/save", << Part("ssid", << 72 >>), Part("ssid", << >>) >>) }

(* C22: a /save whose ssid parameter is present and empty gets the 400      *)
(* page and nothing else happens: retry_count and the file are unchanged,   *)
(* connect_sta is not called, the radio is not touched, the loop goes on.   *)
C22_EmptySsid400 ==
    [][(HttpPass /\ req' \in EmptySsidRequests) =>
          /\ resp' = "400"
          /\ retry_count' = retry_count
          /\ file' = file
          /\ pc' = "ap_loop"
          /\ conn' = None
          /\ requests' = 0
          /\ sta_active' = sta_active
          /\ vres' = "none"
          /\ dns_open' /\ http_open']_vars

C22_Witness ==
    /\ pc = "ap_loop"
    /\ req \in EmptySsidRequests
    /\ resp = "400"
    /\ sent
    /\ retry_count = 2
    /\ has_credentials(file)

(* /save, /save?password=p, /save?xssid=H and /save?ssid *)
NoSsidSaveRequests ==
    { Req("/save", << >>),
      Req("/save", << Part("password", << 112 >>) >>),
      Req("/save", << Part("xssid", << 72 >>) >>),
      Req("/save", << Bare("ssid") >>) }

(* C23: a /save without a query string, or with one that carries no ssid    *)
(* parameter, gets a client-error page, and the loop goes on serving.       *)
C23_NoSsidClientError ==
    [][(HttpPass /\ req' \in NoSsidSaveRequests) =>
          /\ resp' = "400"
          /\ pc' = "ap_loop"
          /\ dns_open' /\ http_open']_vars

(* a step of the AP loop in which the handling of a connection raised:      *)
(* connect_sta raised, or save_credentials or a send raised after it        *)
ExceptionPass ==
    /\ ApRunning
    /\ btn' = btn
    /\ \/ vres' = "raised"
       \/ (pc = "sta_poll" /\ vres' = "true" /\ pc' # "ap_returned")
       \/ (resp' \in {"400", "302", "form", "retrying", "exhausted"} /\ ~sent')

(* C24: when the handling of a connection raises, the loop goes on with     *)
(* both listeners open, retry_count still within 0..MAX_RETRIES and the     *)
(* credential file either untouched or holding a complete record.           *)
C24_ExceptionsContained ==
    [][ExceptionPass =>
          /\ pc' = "ap_loop"
          /\ dns_open' /\ http_open'
          /\ retry_count' <= MAX_RETRIES
          /\ (file' = file \/ WellFormed(file'))]_vars

(* C25: while the AP configurator runs, a datagram arriving on dns_sock is  *)
(* handled: the DNS branch of the loop can take its step, also while an     *)
(* accepted connection is being validated by connect_sta.                   *)
C25_NoStarvation ==
    (ApRunning /\ dns_open) => ENABLED DnsDatagram

(* C26: when run_ap_config_loop has stopped, by a validated save or by an   *)
(* exception, a failure of the set-up included, neither listener is open,   *)
(* and after an exception the access point is not active.                   *)
C26_ListenersReleased ==
    pc \in {"ap_returned", "ap_raised"} =>
       /\ ~dns_open
       /\ ~http_open
       /\ pc = "ap_raised" => ~ap_active

(* C27: the validation failure that exhausts the retries ends               *)
(* run_ap_config_loop with the failure result: the listeners are closed and *)
(* ensure_wifi starts run_ap_config_loop again; a validated save ends it    *)
(* with success.                                                            *)
C27_TwoWaysToReturn ==
    [][/\ (ApRunning /\ resp' = "exhausted" /\ resp' # resp) =>
             (pc' = "ap_start" /\ ~dns_open' /\ ~http_open')
       /\ (ApRunning /\ pc' = "ap_returned") => vres' = "true"]_vars

(* C28: after the retry loop has connected, _sync_time ends ensure_wifi     *)
(* with a normal return whether ntptime.settime() worked or raised: LED on, *)
(* AP inactive, no listener, no restart, file unchanged.                    *)
C28_SyncFailureNotFatal ==
    [][(pc = "connected" /\ btn' = btn) =>
          /\ pc' = "returned"
          /\ ntp' \in {"ok", "failed"}
          /\ led' = 1
          /\ ~ap_active' /\ ~dns_open' /\ ~http_open'
          /\ file' = file]_vars

C28_Witness ==
    /\ pc = "returned"
    /\ ntp = "failed"
    /\ led = 1
    /\ ~ap_active
    /\ ret = "true"

(* the query string has a part "ssid=..." *)
CarriesSsid(query) == \E i \in 1..Len(query) : query[i].k = "ssid" /\ query[i].eq

(* the pass chose the page and changed nothing else *)
PageOnly(page) ==
    /\ resp' = page
    /\ retry_count' = retry_count
    /\ file' = file
    /\ pc' = "ap_loop"
    /\ vres' = "none"
    /\ conn' = None

(* "http://" + AP_IP + "/" *)
config_url == << 104, 116, 116, 112, 58, 47, 47 >> \o AP_IP \o << 47 >>

(* C29 as stated: every well-formed request whose path is none of / and     *)
(* /index.html and which is not a /save carrying an ssid parameter gets the *)
(* 302 page, and retry_count and the file are unchanged.                    *)
C29_OtherPathsRedirect ==
    [][(/\ HttpPass
        /\ req'.kind = "req"
        /\ req'.path \notin {"/", "/index.html"}
        /\ ~(req'.path = "/save" /\ CarriesSsid(req'.query))) =>
          PageOnly("302")]_vars

(* C29 amended: the 302 page is chosen for every well-formed request whose  *)
(* path is none of / and /index.html and which is not a /save whose query   *)
(* string contains the text ssid; a /save whose query contains that text    *)
(* without an "ssid=" part, as /save?xssid=H or /save?ssid, gets the 400    *)
(* page.  Neither changes retry_count or the file.                          *)
C29_RedirectUnlessSsidText ==
    [][/\ (/\ HttpPass
           /\ req'.kind = "req"
           /\ req'.path \notin {"/", "/index.html"}
           /\ ~(req'.path = "/save" /\ SsidInQuery(req'.query))) =>
             PageOnly("302")
       /\ (/\ HttpPass
           /\ req' \in { Req("/save", << Part("xssid", << 72 >>) >>),
                          Req("/save", << Bare("ssid") >>) }) =>
             PageOnly("400")
       /\ config_url = << 104, 116, 116, 112, 58, 47, 47, 49, 57, 50, 46, 49, 54,
                          56, 46, 52, 46, 49, 47 >>]_vars

C29_Witness ==
    /\ pc = "ap_loop"
    /\ req = Req("/save", << Part("xssid", << 72 >>) >>)
    /\ resp = "400"
    /\ sent
    /\ retry_count = 1

(* entries of the list q whose name is the text t *)
Occurrences(q, t) == Cardinality({ i \in 1..Len(q) : q[i][1] = t })

(* the list is in order of non-increasing signal strength, without empty    *)
(* names and without a name twice                                           *)
OrderedDistinct(q) ==
    /\ \A i \in 1..(Len(q) - 1) : q[i][2] >= q[i + 1][2]
    /\ \A i \in 1..Len(q) : q[i][1] # << >> /\ Occurrences(q, q[i][1]) = 1

(* the non-empty names among the scan entries, as reported *)
SeenNames(nets) == { nets[i][1] : i \in 1..Len(nets) } \ { << >> }

NameText(raw) ==
    CASE raw = << 72 >> -> << 72 >>
      [] raw = << 195, 169 >> -> << 233 >>

ClientConnected == ret = "true" \/ vres = "true" \/ pc = "ap_returned"

(* C31 as stated: the status indicator is on exactly when the device is     *)
(* client-connected.                                                        *)
C31_OnExactlyWhenConnected == (led = 1) <=> ClientConnected

(* C31 amended: the indicator is on only after try_connect_sta_with_retries *)
(* returned True, it is turned on by that return alone, and it is off in    *)
(* every state of the AP branch, a validated client connection included.    *)
C31_OnOnlyAfterRetriesConnect ==
    [][/\ led = 1 => (ret = "true" /\ ~InApBranch)
       /\ InApBranch' => led' = 0
       /\ (led = 0 /\ led' = 1) =>
             (pc = "sta_poll" /\ caller = "retries" /\ ret' = "true"
                 /\ pc' = "connected")]_vars

C31_Witness ==
    /\ pc = "ap_returned"
    /\ vres = "true"
    /\ ret = "false"
    /\ led = 0

(* first position after the domain name that starts at position i *)
RECURSIVE NameEnd(_, _)
NameEnd(data, i) ==
    IF i > Len(data) THEN Len(data) + 1
    ELSE IF data[i] = 0 THEN i + 1
    ELSE IF data[i] >= 192 THEN i + 2
    ELSE NameEnd(data, i + 1 + data[i])

(* first position after n questions (name, type, class) that start at i *)
RECURSIVE QuestionsEnd(_, _, _)
QuestionsEnd(data, i, n) ==
    IF n = 0 \/ i > Len(data) THEN i
    ELSE LET e == NameEnd(data, i) + 4 IN
         QuestionsEnd(data, IF e > Len(data) THEN Len(data) + 1 ELSE e, n - 1)

(* the question section of a query: the QDCOUNT questions after the header *)
QuestionSection(data) ==
    SubSeq(data, 13, QuestionsEnd(data, 13, data[5] * 256 + data[6]) - 1)

(* name pointer to offset 12, type A, class IN, TTL 60, length 4, address *)
AnswerRecord(a) == << 192, 12, 0, 1, 0, 1, 0, 0, 0, 60, 0, 4 >> \o Octets(a)

(* C32: for every query of 12 bytes or more the response declares one       *)
(* question and one answer, echoes the question section of the query, and    *)
(* the answer record for the address follows the echoed question section    *)
(* at once and ends the response, which is 16 bytes longer than the query.  *)
C32_QuestionThenAnswer ==
    (op = "dns" /\ Len(input[1]) >= 12) =>
       LET q == QuestionSection(input[1]) IN
       /\ SubSeq(out, 5, 8) = << 0, 1, 0, 1 >>
       /\ SubSeq(out, 13, 12 + Len(q)) = q
       /\ SubSeq(out, 13 + Len(q), Len(out)) = AnswerRecord(input[2])
       /\ Len(out) = Len(input[1]) + 16

(* a step that is a pass of the polling loop, and its parts *)
PassStep == iter' # iter /\ iter' # NoPass
Updated(it, why) == \E i \in 1..Len(it.updates) : it.updates[i] = why
PolledCmd(it) ==
    IF it.poll = "ok" /\ it.response.system_cmd \notin {None, << >>}
    THEN Clean(it.response.system_cmd) ELSE None

(* C33: the relay is high when the loop starts and changes level only in a  *)
(* pass that processes a polled ON (to low) or OFF (to high); passes with a *)
(* failed poll, an empty response, an unrecognised command, a manual update *)
(* or a periodic update leave the level as it is.                           *)
C33_RelayFollowsCommands ==
    [][/\ (iter' = NoPass \/ (PassStep /\ iter'.exit = "cut")) => RELAY_PIN' = 1
       /\ (PassStep /\ iter'.exit # "cut") =>
             /\ iter'.writes = 1 => PolledCmd(iter') \in {ON, OFF}
             /\ (iter'.writes = 1 /\ PolledCmd(iter') = ON) => RELAY_PIN' = 0
             /\ (iter'.writes = 1 /\ PolledCmd(iter') = OFF) => RELAY_PIN' = 1
             /\ (iter'.writes = 0 \/ PolledCmd(iter') \notin {ON, OFF}) =>
                   RELAY_PIN' = RELAY_PIN
       /\ ~PassStep /\ iter' # NoPass => RELAY_PIN' = RELAY_PIN]_vars

C33_Witness ==
    /\ pc = "main_loop"
    /\ iter # NoPass
    /\ iter.response.system_cmd = << 34, 79, 78, 34 >>
    /\ iter.writes = 1
    /\ Updated(iter, "cmd")
    /\ Updated(iter, "manual")
    /\ RELAY_PIN = 0

(* C34: a polled command equal to the last processed one causes no relay    *)
(* write and no update; a write or an update for a command happens only     *)
(* for ON or OFF that differs from the last processed one; and a command    *)
(* is not acted on in two passes in a row that polled the same value.       *)
C34_ActedOnOnce ==
    [][(PassStep /\ iter'.exit # "cut") =>
          /\ (PolledCmd(iter') # None /\ PolledCmd(iter') = last_processed_sys_cmd) =>
                (iter'.writes = 0 /\ ~Updated(iter', "cmd"))
          /\ (iter'.writes = 1 \/ Updated(iter', "cmd")) =>
                (PolledCmd(iter') \in {ON, OFF}
                   /\ PolledCmd(iter') # last_processed_sys_cmd)
          /\ (iter # NoPass /\ iter.exit # "cut" /\ iter.writes = 1
                 /\ iter'.response.system_cmd = iter.response.system_cmd) =>
                iter'.writes = 0]_vars

(* C38: when a pass of the loop is over, the relay is low exactly when       *)
(* last_processed_sys_cmd is ON.                                            *)
C38_RelayAgreesWithMarker ==
    pc = "main_loop" => (RELAY_PIN = 0 <=> last_processed_sys_cmd = ON)

(* C35: a periodic update is sent only in a pass that finds the relay low    *)
(* and more than THIRTY_MINUTES_MS after the last periodic update (or the    *)
(* start of the loop); none is sent while the relay is high.                 *)
C35_PeriodicOnlyWhenOnAndDue ==
    [][(PassStep /\ Updated(iter', "periodic")) =>
          /\ RELAY_PIN' = 0
          /\ last_periodic_check' - last_periodic_check > 60000
          /\ last_periodic_check' > now
          /\ last_periodic_check' <= now']_vars

C35_Witness ==
    /\ pc = "main_loop"
    /\ iter # NoPass
    /\ Updated(iter, "periodic")
    /\ last_periodic_check = 138000
    /\ RELAY_PIN = 0

(* the pass served a manual update and sent the patch that resets it *)
Acked(it) == it # NoPass /\ it.ack # "none"

(* a poll of the store as it is would be processed as a new manual update *)
WouldProcess ==
    /\ command.manual_update # None
    /\ IsRequest(command.manual_update)
    /\ command.manual_update # last_processed_manual_update

(* C36 as stated: the marker is set only after the reset returned 200; if   *)
(* the acknowledgment fails, or the device restarts after the remote         *)
(* acknowledgment and before the marker is set, the request is processed     *)
(* again.                                                                    *)
C36_ReprocessedAfterRestart ==
    [][(PassStep /\ Acked(iter')) =>
          /\ (last_processed_manual_update' # last_processed_manual_update
                /\ last_processed_manual_update' # None) => iter'.ack = "200"
          /\ iter'.ack \in {"non200", "raise", "cut"} => WouldProcess']_vars

(* C36 amended: the marker is set only after the reset returned 200; when    *)
(* the reset did not reach the store the marker is unchanged and the next    *)
(* poll processes the request again; once the reset has reached the store    *)
(* the request is not processed again, whether the marker was set, the       *)
(* response was lost or the device restarted.                                *)
C36_ReprocessedUnlessReset ==
    [][(PassStep /\ Acked(iter')) =>
          /\ (last_processed_manual_update' # last_processed_manual_update
                /\ last_processed_manual_update' # None) => iter'.ack = "200"
          /\ iter'.ack \in {"non200", "raise"} =>
                /\ last_processed_manual_update' = last_processed_manual_update
                /\ command' = command
                /\ WouldProcess'
          /\ iter'.ack \in {"200", "lost", "cut"} =>
                /\ command'.manual_update = False
                /\ ~WouldProcess'
          /\ iter'.ack = "200" =>
                last_processed_manual_update' = iter'.response.manual_update
          /\ iter'.ack = "cut" => last_processed_manual_update' = None]_vars

C36_Witness ==
    /\ pc = "main_loop"
    /\ iter # NoPass
    /\ iter.ack = "cut"
    /\ Updated(iter, "manual")
    /\ command.manual_update = False
    /\ last_processed_manual_update = None

(* C37: a manual update raised by the app and not served yet is served by    *)
(* the pass that polls it, unless the sensor read fails.                     *)
C37_RequestServed ==
    [][(PassStep /\ pending /\ iter'.poll = "ok"
          /\ iter'.exit = "run" /\ ~iter'.err) =>
          Updated(iter', "manual")]_vars

(* the echo line never rises, or rises and never falls *)
NeverRises(e) == \A i \in 1..Len(e) : e[i] = 0
NeverFalls(e) ==
    \E k \in 1..Len(e) : \A i \in 1..Len(e) : e[i] = (IF i < k THEN 0 ELSE 1)

(* the echo line is seen low, later high, later low again *)
LowHighLow(e) ==
    \E i, j, k \in 1..Len(e) : i < j /\ j < k /\ e[i] = 0 /\ e[j] = 1 /\ e[k] = 0

(* C39: get_distance returns only after the echo line was seen low, then     *)
(* high, then low again; when the line never rises or never falls it does    *)
(* not return, and the loop that called it takes no further step: no poll,   *)
(* no relay write, no update, whatever the app writes to the store.          *)
C39_NoTimeout ==
    [][/\ (PassStep /\ iter'.echo # None) =>
             /\ get_distance(iter'.echo) = "returned" => LowHighLow(iter'.echo)
             /\ (NeverRises(iter'.echo) \/ NeverFalls(iter'.echo)) =>
                   (get_distance(iter'.echo) = "hung" /\ pc' = "hung")
       /\ (pc = "hung" /\ pc' = "hung") =>
             UNCHANGED << RELAY_PIN, last_processed_sys_cmd,
                          last_processed_manual_update, last_periodic_check,
                          now, iter >>]_vars

C39_Witness ==
    /\ pc = "hung"
    /\ iter.echo = << 0 >>
    /\ iter.writes = 1
    /\ RELAY_PIN = 0
    /\ command.system_cmd = OFF

(* C40: connect_to_wifi writes the submitted pair before it connects: after  *)
(* an attempt that failed, with the save done, the stored record reads back  *)
(* as the submitted pair whatever was stored before; and connect_wifi of     *)
(* the next start, without a reset, connects with the stored pair.           *)
C40_FailedPairPersisted ==
    [][/\ (pc = "main_run" /\ pc' = "main_run" /\ out'[1] = "ok"
             /\ out'[2] # "connected") =>
             load_wifi_config(wifi_config') = input'
       /\ (pc = "main_boot" /\ pc' = "main_run" /\ out'[1] = "kept"
             /\ ~NotSsid(load_wifi_config(wifi_config)[1])) =>
             (input' = load_wifi_config(wifi_config) /\ wifi_config' = wifi_config)]_vars

C40_Witness ==
    /\ pc = "main_run"
    /\ op = "connect_wifi"
    /\ out = << "kept", "timeout" >>
    /\ input = << << 72, 34, 92 >>, << 112, 32 >> >>
    /\ wifi_config = JsonFile(<< 72, 34, 92 >>, << 112, 32 >>)

====
